---- MODULE Spec2Model ----
(***************************************************************************)
(* Model of chat2dbchatbot/tools/ingest.py: the VectorSearch class         *)
(* (existence probe, document conversion, index creation / loading,        *)
(* query) and the main() orchestrator, run by two processes against one    *)
(* shared database table and one shared output directory.                  *)
(***************************************************************************)
EXTENDS Naturals, Sequences, FiniteSets

\* ---------------------------------------------------------------- bounds
MaxBatch == 2
MaxCalls == 2

\* two invocations of the script against the same database
Procs == {1, 2}
\* the instance driven through its public methods in SpecApi
ApiProcs == {1}

VARIABLES
    tableExists,   \* public.data_vector_store exists in the database
    tableWrites,   \* number of corpus writes (from_documents) into the table
    files,         \* JSON files present in the output directory
    pc,            \* per process: position in main() / lifecycle of the instance
    force,         \* per process: main's force_rebuild argument
    has_vectors,   \* per instance: self.has_vectors (FALSE until __init__ sets it)
    probe,         \* per instance: the catalog query outcome seen by __init__ and what the check did with it
    conv,          \* per instance: the last convert_documents call and its effect
    index,         \* per process: the index handle held ("none" before one is obtained)
    last,          \* per instance: the last create_index / load_index call and its effect
    count,         \* per instance: number of calls of each method
    docReads,      \* per instance: reader.load_data() calls
    embedCalls,    \* per instance: VectorStoreIndex.from_documents() calls
    err            \* per process: the exception that ended main ("none" if none)

vars == <<tableExists, tableWrites, files, pc, force, has_vectors, probe, conv,
          index, last, count, docReads, embedCalls, err>>

\* ------------------------------------------------------- existence probe
\* Outcomes of db_manager.execute_query(query): an exception, or a value that
\* is a list of rows or something else (None, an error string).
Cells == {"True", "False", "None"}
Truthy(c) == c = "True"

QueryRaises == [kind |-> "raise", isList |-> FALSE, rows |-> <<>>]
QueryNotList == [kind |-> "value", isList |-> FALSE, rows |-> <<>>]
QueryRows(rs) == [kind |-> "value", isList |-> TRUE, rows |-> rs]

\* what the catalog answers when the query runs cleanly
QueryAnswer(exists) == QueryRows(<< <<IF exists THEN "True" ELSE "False">> >>)

QueryOutcomes(exists) ==
    { QueryRaises, QueryNotList, QueryRows(<<>>), QueryRows(<< <<>> >>),
      QueryRows(<< <<"None">> >>), QueryAnswer(exists) }

\* isinstance(result, list) and result[0][0]
ResultTest(result) ==
    IF ~result.isList THEN [kind |-> "value", value |-> FALSE]
    ELSE IF Len(result.rows) = 0 THEN [kind |-> "raise", value |-> FALSE]
    ELSE IF Len(result.rows[1]) = 0 THEN [kind |-> "raise", value |-> FALSE]
    ELSE [kind |-> "value", value |-> Truthy(result.rows[1][1])]

\* the same body without the try/except: errors reach the caller
check_vectors_exist_uncaught(outcome) ==
    IF outcome.kind = "raise" THEN [kind |-> "raise", value |-> FALSE]
    ELSE LET t == ResultTest(outcome) IN
         IF t.kind = "raise" THEN [kind |-> "raise", value |-> FALSE]
         ELSE [kind |-> "return", value |-> t.value]

check_vectors_exist(outcome) ==
    IF outcome.kind = "raise" THEN [kind |-> "return", value |-> FALSE]
    ELSE LET t == ResultTest(outcome) IN
         IF t.kind = "raise" THEN [kind |-> "return", value |-> FALSE]
         ELSE IF t.value THEN [kind |-> "return", value |-> TRUE]
         ELSE [kind |-> "return", value |-> FALSE]

NoProbe == [done |-> FALSE, outcome |-> QueryNotList,
            result |-> [kind |-> "return", value |-> FALSE]]

\* ----------------------------------------------------------- conversion
Status == {"SUCCESS", "PARTIAL_SUCCESS", "FAILURE"}

\* A path is its directory, the stem of its file name and the suffix.
MkPath(d, s, x) == [dir |-> d, stem |-> s, suffix |-> x]
DataDictionary == MkPath("db", "Chinook Data Dictionary", "docx")
DataModel == MkPath("db", "Chinook Data Model", "docx")
OtherDataModel == MkPath("archive", "Chinook Data Model", "pdf")

input_docs == <<DataDictionary, DataModel>>
Paths == {DataDictionary, DataModel, OtherDataModel}

Stem(path) == path.stem
\* output_dir / f"{doc_filename}.json"
OutputFile(stem) == MkPath("converted", stem, "json")

\* converter.convert_all(input_paths, raises_on_error=False): one result per
\* input, in order, its status decided by the converter
Results(paths, statuses) ==
    [i \in 1..Len(paths) |-> [input |-> paths[i], status |-> statuses[i]]]

Tally0 == [success_count |-> 0, partial_success_count |-> 0, failure_count |-> 0,
           written |-> {}, inspected |-> 0]

\* a loop body that also serialises partially converted documents
LoopBodyWritesPartial(acc, result) ==
    IF result.status # "FAILURE"
    THEN [acc EXCEPT !.success_count = @ + 1,
                     !.written = @ \cup {OutputFile(Stem(result.input))},
                     !.inspected = @ + 1]
    ELSE [acc EXCEPT !.inspected = @ + 1]

\* body of "for result in results"
LoopBody(acc, result) ==
    IF result.status = "SUCCESS"
    THEN [acc EXCEPT !.success_count = @ + 1,
                     !.written = @ \cup {OutputFile(Stem(result.input))},
                     !.inspected = @ + 1]
    ELSE [acc EXCEPT !.inspected = @ + 1]

RECURSIVE ConvertLoop(_, _, _)
ConvertLoop(results, i, acc) ==
    IF i > Len(results) THEN acc
    ELSE ConvertLoop(results, i + 1, LoopBody(acc, results[i]))

\* the effect of one convert_documents call
convert_documents(paths, statuses) ==
    LET t == ConvertLoop(Results(paths, statuses), 1, Tally0) IN
    [called |-> TRUE, paths |-> paths, statuses |-> statuses,
     outcome |-> IF t.failure_count > 0 THEN "raise" ELSE "return",
     ret |-> <<t.success_count, t.partial_success_count, t.failure_count>>,
     reported |-> t.failure_count, total |-> Len(paths),
     written |-> t.written, inspected |-> t.inspected]

NoConv == [called |-> FALSE, paths |-> <<>>, statuses |-> <<>>, outcome |-> "return",
           ret |-> <<0, 0, 0>>, reported |-> 0, total |-> 0,
           written |-> {}, inspected |-> 0]

\* ------------------------------------------------------------- handles
\* An index handle is bound to the instance's vector_store table only.
table_name == "vector_store"
Handle == [table |-> table_name]
NoHandle == [table |-> "none"]

NoCall == [op |-> "none", force |-> FALSE, existed |-> FALSE, delegated |-> FALSE,
           reads |-> 0, embeds |-> 0, wrote |-> FALSE, ret |-> NoHandle]

Count0 == [construct |-> 0, convert |-> 0, create |-> 0, load |-> 0, query |-> 0]

\* ------------------------------------------------------ VectorSearch methods
\* VectorSearch.__init__
Construct(p) ==
    \E outcome \in QueryOutcomes(tableExists) :
        LET r == check_vectors_exist(outcome) IN
        /\ probe' = [probe EXCEPT ![p] = [done |-> TRUE, outcome |-> outcome, result |-> r]]
        /\ has_vectors' = [has_vectors EXCEPT ![p] =
                              IF r.kind = "return" THEN r.value ELSE @]
        /\ count' = [count EXCEPT ![p].construct = @ + 1]

\* VectorSearch.convert_documents
ConvertDocuments(p, paths, statuses) ==
    LET c == convert_documents(paths, statuses) IN
    /\ conv' = [conv EXCEPT ![p] = c]
    /\ files' = files \cup c.written
    /\ count' = [count EXCEPT ![p].convert = @ + 1]

\* VectorSearch.load_index
LoadIndexCall(existed) ==
    [op |-> "load_index", force |-> FALSE, existed |-> existed, delegated |-> FALSE,
     reads |-> 0, embeds |-> 0, wrote |-> FALSE, ret |-> Handle]

LoadIndex(p) ==
    /\ last' = [last EXCEPT ![p] = LoadIndexCall(tableExists)]
    /\ index' = [index EXCEPT ![p] = Handle]
    /\ count' = [count EXCEPT ![p].load = @ + 1]
    /\ UNCHANGED <<tableExists, tableWrites, docReads, embedCalls, has_vectors>>

\* the branch of create_index: reuse the existing index?
\* (variants: one that ignores force_rebuild, one that asks the database)
ReuseIgnoringForce(p, force_rebuild) == has_vectors[p]

ReuseByTable(p, force_rebuild) == tableExists /\ ~force_rebuild

Reuse(p, force_rebuild) == has_vectors[p] /\ ~force_rebuild

\* a create_index that refreshes self.has_vectors once the table is written
CreateIndexRefreshing(p, force_rebuild) ==
    /\ count' = [count EXCEPT ![p].create = @ + 1]
    /\ index' = [index EXCEPT ![p] = Handle]
    /\ IF Reuse(p, force_rebuild)
       THEN /\ last' = [last EXCEPT ![p] =
                   [LoadIndexCall(tableExists) EXCEPT !.op = "create_index",
                                                      !.force = force_rebuild,
                                                      !.delegated = TRUE]]
            /\ UNCHANGED <<tableExists, tableWrites, docReads, embedCalls, has_vectors>>
       ELSE /\ docReads' = [docReads EXCEPT ![p] = @ + 1]
            /\ embedCalls' = [embedCalls EXCEPT ![p] = @ + 1]
            /\ tableExists' = TRUE
            /\ tableWrites' = tableWrites + 1
            /\ has_vectors' = [has_vectors EXCEPT ![p] = TRUE]
            /\ last' = [last EXCEPT ![p] =
                   [op |-> "create_index", force |-> force_rebuild,
                    existed |-> tableExists, delegated |-> FALSE,
                    reads |-> 1, embeds |-> 1, wrote |-> TRUE, ret |-> Handle]]

\* VectorSearch.create_index
CreateIndex(p, force_rebuild) ==
    /\ count' = [count EXCEPT ![p].create = @ + 1]
    /\ index' = [index EXCEPT ![p] = Handle]
    /\ IF Reuse(p, force_rebuild)
       THEN /\ last' = [last EXCEPT ![p] =
                   [LoadIndexCall(tableExists) EXCEPT !.op = "create_index",
                                                      !.force = force_rebuild,
                                                      !.delegated = TRUE]]
            /\ UNCHANGED <<tableExists, tableWrites, docReads, embedCalls, has_vectors>>
       ELSE /\ docReads' = [docReads EXCEPT ![p] = @ + 1]
            /\ embedCalls' = [embedCalls EXCEPT ![p] = @ + 1]
            /\ tableExists' = TRUE
            /\ tableWrites' = tableWrites + 1
            /\ UNCHANGED has_vectors
            /\ last' = [last EXCEPT ![p] =
                   [op |-> "create_index", force |-> force_rebuild,
                    existed |-> tableExists, delegated |-> FALSE,
                    reads |-> 1, embeds |-> 1, wrote |-> TRUE, ret |-> Handle]]

\* VectorSearch.query
Query(p) ==
    /\ count' = [count EXCEPT ![p].query = @ + 1]

\* ------------------------------------------------------------------ main
\* "if force_rebuild or not searcher.has_vectors" (a variant forgets the flag)
RebuildPathIgnoringForce(p) == ~has_vectors[p]

RebuildPath(p) == force[p] \/ ~has_vectors[p]

Fail(p, e) ==
    /\ pc' = [pc EXCEPT ![p] = "error"]
    /\ err' = [err EXCEPT ![p] = e]

Goto(p, l) ==
    /\ pc' = [pc EXCEPT ![p] = l]
    /\ UNCHANGED err

\* db_manager.test_connection()
TestConnection(p) ==
    /\ pc[p] = "start"
    /\ \E ok \in BOOLEAN :
          IF ok THEN Goto(p, "key") ELSE Fail(p, "ConnectionError")
    /\ UNCHANGED <<tableExists, tableWrites, files, force, has_vectors, probe, conv,
                   index, last, count, docReads, embedCalls>>

\* openai.api_key = os.getenv('OPENAI_API_KEY')
CheckApiKey(p) ==
    /\ pc[p] = "key"
    /\ \E present \in BOOLEAN :
          IF present THEN Goto(p, "construct") ELSE Fail(p, "ValueError")
    /\ UNCHANGED <<tableExists, tableWrites, files, force, has_vectors, probe, conv,
                   index, last, count, docReads, embedCalls>>

\* searcher = VectorSearch(db_manager)
MainConstruct(p) ==
    /\ pc[p] = "construct"
    /\ Construct(p)
    /\ Goto(p, "decide")
    /\ UNCHANGED <<tableExists, tableWrites, files, force, conv, index, last,
                   docReads, embedCalls>>

\* searcher.convert_documents(input_docs, output_dir)
MainConvert(p) ==
    /\ pc[p] = "decide"
    /\ RebuildPath(p)
    /\ \E statuses \in [1..Len(input_docs) -> Status] :
          /\ ConvertDocuments(p, input_docs, statuses)
          /\ IF convert_documents(input_docs, statuses).outcome = "raise"
             THEN Fail(p, "RuntimeError")
             ELSE Goto(p, "index")
    /\ UNCHANGED <<tableExists, tableWrites, force, has_vectors, probe, index, last,
                   docReads, embedCalls>>

\* index = searcher.create_index(output_dir, force_rebuild=force_rebuild)
MainCreateIndex(p) ==
    /\ pc[p] = "index"
    /\ CreateIndex(p, force[p])
    /\ Goto(p, "query")
    /\ UNCHANGED <<files, force, probe, conv>>

\* index = searcher.load_index()
MainLoadIndex(p) ==
    /\ pc[p] = "decide"
    /\ ~RebuildPath(p)
    /\ LoadIndex(p)
    /\ Goto(p, "query")
    /\ UNCHANGED <<files, force, probe, conv>>

\* result = searcher.query(index, "What is the album table?")
MainQuery(p) ==
    /\ pc[p] = "query"
    /\ index[p] # NoHandle
    /\ Query(p)
    /\ Goto(p, "done")
    /\ UNCHANGED <<tableExists, tableWrites, files, force, has_vectors, probe, conv,
                   index, last, docReads, embedCalls>>

InitCommon ==
    /\ tableExists \in BOOLEAN
    /\ tableWrites = 0
    /\ files = {}
    /\ has_vectors = [p \in Procs |-> FALSE]
    /\ probe = [p \in Procs |-> NoProbe]
    /\ conv = [p \in Procs |-> NoConv]
    /\ index = [p \in Procs |-> NoHandle]
    /\ last = [p \in Procs |-> NoCall]
    /\ count = [p \in Procs |-> Count0]
    /\ docReads = [p \in Procs |-> 0]
    /\ embedCalls = [p \in Procs |-> 0]
    /\ err = [p \in Procs |-> "none"]

Init ==
    /\ InitCommon
    /\ pc = [p \in Procs |-> "start"]
    /\ force \in [Procs -> BOOLEAN]

Next ==
    \E p \in Procs :
        \/ TestConnection(p)
        \/ CheckApiKey(p)
        \/ MainConstruct(p)
        \/ MainConvert(p)
        \/ MainCreateIndex(p)
        \/ MainLoadIndex(p)
        \/ MainQuery(p)

Spec == Init /\ [][Next]_vars

\* ------------------------------------------- the class used method by method
Calls(p) == count[p].convert + count[p].create + count[p].load + count[p].query

\* batches of up to MaxBatch distinct input paths
Batches ==
    UNION {{b \in [1..n -> Paths] : \A i, j \in 1..n : b[i] = b[j] => i = j} :
              n \in 0..MaxBatch}

ApiConstruct(p) ==
    /\ pc[p] = "new"
    /\ Construct(p)
    /\ Goto(p, "ready")
    /\ UNCHANGED <<tableExists, tableWrites, files, force, conv, index, last,
                   docReads, embedCalls>>

ApiConvert(p) ==
    /\ pc[p] = "ready"
    /\ Calls(p) < MaxCalls
    /\ \E paths \in Batches :
          \E statuses \in [1..Len(paths) -> Status] :
              ConvertDocuments(p, paths, statuses)
    /\ UNCHANGED <<tableExists, tableWrites, pc, force, has_vectors, probe, index, last,
                   docReads, embedCalls, err>>

ApiCreateIndex(p) ==
    /\ pc[p] = "ready"
    /\ Calls(p) < MaxCalls
    /\ \E force_rebuild \in BOOLEAN : CreateIndex(p, force_rebuild)
    /\ UNCHANGED <<files, pc, force, probe, conv, err>>

ApiLoadIndex(p) ==
    /\ pc[p] = "ready"
    /\ Calls(p) < MaxCalls
    /\ LoadIndex(p)
    /\ UNCHANGED <<files, pc, force, probe, conv, err>>

ApiQuery(p) ==
    /\ pc[p] = "ready"
    /\ Calls(p) < MaxCalls
    /\ index[p] # NoHandle
    /\ Query(p)
    /\ UNCHANGED <<tableExists, tableWrites, files, pc, force, has_vectors, probe, conv,
                   index, last, docReads, embedCalls, err>>

InitApi ==
    /\ InitCommon
    /\ pc = [p \in Procs |-> "new"]
    /\ force = [p \in Procs |-> FALSE]

NextApi ==
    \E p \in ApiProcs :
        \/ ApiConstruct(p)
        \/ ApiConvert(p)
        \/ ApiCreateIndex(p)
        \/ ApiLoadIndex(p)
        \/ ApiQuery(p)

SpecApi == InitApi /\ [][NextApi]_vars

TypeOK ==
    /\ tableExists \in BOOLEAN
    /\ tableWrites \in Nat
    /\ has_vectors \in [Procs -> BOOLEAN]
    /\ \A p \in Procs : index[p] \in {NoHandle, Handle}

\* ---------------------------------------------------------------- claims
CountStatus(statuses, s) == Cardinality({i \in DOMAIN statuses : statuses[i] = s})

Failures(p) == CountStatus(conv[p].statuses, "FAILURE")

\* the probe at construction got the catalog's own answer (no error, no
\* malformed result)
CleanProbe(p) ==
    /\ probe[p].done
    /\ probe[p].outcome \in {QueryAnswer(TRUE), QueryAnswer(FALSE)}

Obtained(p) == pc[p] \in {"query", "done"}

\* C1: a batch with at least one FAILURE result is inspected completely and
\* then convert_documents raises, reporting the number of FAILURE results.
C1_FailureRaises ==
    \A p \in Procs :
        (conv[p].called /\ Failures(p) > 0) =>
            /\ conv[p].inspected = Len(conv[p].paths)
            /\ conv[p].outcome = "raise"
            /\ conv[p].reported = Failures(p)

\* C2: in main, when force_rebuild or not has_vectors, convert_documents runs
\* once, then create_index runs once and rebuilds (one read of the documents,
\* one embedding run) and load_index is not called; otherwise neither runs
\* and load_index is called once with no read and no embedding.  A query is
\* issued only with an index handle, and a finished run has issued exactly one.
C2_MainPaths ==
    \A p \in Procs :
        /\ count[p].create > 0 => count[p].convert = 1
        /\ count[p].query > 0 => index[p] # NoHandle
        /\ count[p].query = (IF pc[p] = "done" THEN 1 ELSE 0)
        /\ index[p] # NoHandle => Obtained(p)
        /\ Obtained(p) =>
             IF force[p] \/ ~has_vectors[p]
             THEN /\ count[p].convert = 1 /\ count[p].create = 1 /\ count[p].load = 0
                  /\ docReads[p] = 1 /\ embedCalls[p] = 1
                  /\ last[p].op = "create_index" /\ ~last[p].delegated /\ last[p].wrote
             ELSE /\ count[p].convert = 0 /\ count[p].create = 0 /\ count[p].load = 1
                  /\ docReads[p] = 0 /\ embedCalls[p] = 0
                  /\ last[p].op = "load_index"

\* one run finished on the rebuild path, another on the reuse path
C2_Witness ==
    \E p, q \in Procs :
        /\ pc[p] = "done" /\ force[p] /\ has_vectors[p] /\ embedCalls[p] = 1
        /\ pc[q] = "done" /\ ~force[q] /\ has_vectors[q] /\ count[q].load = 1

\* C3: create_index(docs_dir, force_rebuild=False) called while the vector
\* table exists reads no documents, embeds nothing and returns the handle
\* load_index returns.
C3_ReuseWhenTableExists ==
    \A p \in Procs :
        (/\ last[p].op = "create_index"
         /\ ~last[p].force
         /\ last[p].existed
         /\ CleanProbe(p)) =>
            /\ last[p].reads = 0
            /\ last[p].embeds = 0
            /\ last[p].ret = LoadIndexCall(TRUE).ret

\* C4: the existence check always returns a boolean to its caller, and
\* returns false whenever the catalog query raised.
C4_ProbeNeverRaises ==
    \A p \in Procs :
        probe[p].done =>
            /\ probe[p].result.kind = "return"
            /\ probe[p].result.value \in BOOLEAN
            /\ probe[p].outcome.kind = "raise" => probe[p].result.value = FALSE
            /\ has_vectors[p] = probe[p].result.value

\* the query raised on a table that exists, and the instance was built anyway
C4_Witness ==
    \E p \in Procs :
        /\ probe[p].done
        /\ probe[p].outcome.kind = "raise"
        /\ tableExists
        /\ ~has_vectors[p]

\* C5: create_index(docs_dir, force_rebuild=True) never delegates to
\* load_index: it reads the documents, embeds them and writes the table,
\* whether or not vectors existed.
C5_ForceAlwaysRebuilds ==
    \A p \in Procs :
        (last[p].op = "create_index" /\ last[p].force) =>
            /\ ~last[p].delegated
            /\ last[p].reads = 1
            /\ last[p].embeds = 1
            /\ last[p].wrote

\* a forced rebuild on an instance that saw the vectors at construction
C5_Witness ==
    \E p \in Procs :
        /\ last[p].op = "create_index" /\ last[p].force
        /\ last[p].existed /\ has_vectors[p] /\ CleanProbe(p)

\* C6: the files a convert_documents call wrote are exactly the <stem>.json
\* files of the inputs whose result is SUCCESS.
C6_WrittenFiles ==
    \A p \in Procs :
        conv[p].called =>
            /\ conv[p].written =
                 {OutputFile(Stem(conv[p].paths[i])) :
                     i \in {j \in DOMAIN conv[p].paths : conv[p].statuses[j] = "SUCCESS"}}
            /\ conv[p].written \subseteq files

\* a batch mixing a SUCCESS with a PARTIAL_SUCCESS or FAILURE result
C6_Witness ==
    \E p \in Procs :
        /\ conv[p].called
        /\ \E i, j \in DOMAIN conv[p].statuses :
              /\ conv[p].statuses[i] = "SUCCESS"
              /\ conv[p].statuses[j] # "SUCCESS"
              /\ Stem(conv[p].paths[i]) # Stem(conv[p].paths[j])
        /\ Cardinality(conv[p].written) = 1

\* C7: when convert_documents returns, the triple it returns holds the
\* numbers of SUCCESS, PARTIAL_SUCCESS and FAILURE results.
C7_ReturnedCounts ==
    \A p \in Procs :
        (conv[p].called /\ conv[p].outcome = "return") =>
            conv[p].ret = << CountStatus(conv[p].statuses, "SUCCESS"),
                             CountStatus(conv[p].statuses, "PARTIAL_SUCCESS"),
                             CountStatus(conv[p].statuses, "FAILURE") >>

\* C8: a run of main that fails the connection test or lacks the API key
\* stops before the pipeline is constructed (no existence check, conversion,
\* index or query), and a run whose conversion batch has a FAILURE result
\* stops with an error, creating no index and issuing no query.
C8_FatalPreconditions ==
    \A p \in Procs :
        /\ err[p] \in {"ConnectionError", "ValueError"} =>
              /\ pc[p] = "error"
              /\ ~probe[p].done /\ ~conv[p].called
              /\ count[p] = Count0 /\ index[p] = NoHandle
              /\ docReads[p] = 0 /\ embedCalls[p] = 0
        /\ (conv[p].called /\ Failures(p) > 0) =>
              /\ pc[p] = "error"
              /\ count[p].create = 0 /\ index[p] = NoHandle
              /\ embedCalls[p] = 0 /\ count[p].query = 0

\* C9: once the constructor has run, no method changes has_vectors.
C9_FlagOnlySetByConstructor ==
    [][\A p \in Procs : probe[p].done => has_vectors'[p] = has_vectors[p]]_vars

\* create_index has created the table, and the flag still says "no vectors"
C9_Witness ==
    \E p \in Procs :
        /\ CleanProbe(p) /\ ~has_vectors[p]
        /\ last[p].op = "create_index" /\ last[p].wrote /\ ~last[p].existed
        /\ tableExists

\* C10: nothing orders the existence check of one process against the build
\* of another: every process that reached its index on the rebuild path has
\* written the corpus into the table, whatever the table held by then.
C10_NoRebuildGuard ==
    tableWrites = Cardinality({p \in Procs : Obtained(p) /\ (force[p] \/ ~has_vectors[p])})

\* both processes, without force_rebuild, saw the table absent and both
\* wrote the corpus into it
C10_Witness ==
    \E p, q \in Procs :
        /\ p # q
        /\ ~force[p] /\ ~force[q]
        /\ probe[p].outcome = QueryAnswer(FALSE) /\ probe[q].outcome = QueryAnswer(FALSE)
        /\ probe[p].done /\ probe[q].done
        /\ pc[p] = "done" /\ pc[q] = "done"
        /\ last[p].wrote /\ last[q].wrote
        /\ tableWrites = 2

====
